---------------------------- MODULE Spec2Model ----------------------------
(***************************************************************************)
(* Thunderbird-Metrics: the version parser and compatibility test of       *)
(* addons.py and crash_stats.py, and the report pipeline of addons.py      *)
(* main().  Texts are sequences of one-character strings.                  *)
(***************************************************************************)
EXTENDS Integers, Sequences, FiniteSets, TLC

VARIABLES
    version,      \* the text handed to parse_version
    aversion,     \* what addons.py parse_version returned for it
    stderr,       \* the text parse_version reported as unparsable, if any
    crash,        \* what crash_stats.py parse_version returned for it
    release,      \* what crash_stats.py output_verion returned for it
    compat,       \* addon_version["compatibility"]: the APP block or none
    compatible,   \* the outcome of is_compatible(aversion, addon_version)
    crash_dates,  \* start_date and end_date of crash_stats.py main()
    \* addons.py main()
    pc,               \* the statement main() is at
    error,            \* the exception that ended main(), "" if none
    now,              \* datetime.now(timezone.utc) of line 274
    tb_versions,      \* what get_tb_versions() returned
    addons,           \* the add-on records loaded for the type
    addon_versions,   \* the version history loaded for each add-on
    date,             \* the month the loop of line 284 is at
    dates,            \* the months of the window, ascending
    end_date,         \* the month reported on
    aversions,        \* the target Thunderbird versions
    items,            \* the add-ons compatible on their current version
    addons_count,     \* len(addons)
    flags_table,      \* the rows of the "Type / Count" table
    rows,             \* the rows of the compatibility table
    total_compatible, \* the "Total compatible" ratio
    created,          \* (year, month) -> the add-ons created then
    updated,          \* (year, month) -> the add-ons last updated then
    updates,          \* (year, month) -> one entry per version released then
    labels,           \* the x axis of the monthly graphs
    created_status,   \* the series "Created"
    updates_status,   \* the series "Updates"
    rows1,            \* the rows of "Created by Month"
    rows2,            \* the rows of "Updates by Month"
    top_users,        \* the rows of "Top by Daily Users"
    top_reviews,      \* the rows of "Top by Total Reviews"
    top_rating,       \* the rows of "Top by Rating"
    \* addons.py: the fetchers and the files of main()
    cache,            \* the files of the report months: path -> content
    run,              \* the locals of main() while it loads its data
    call,             \* the locals of the fetcher main() is in, if any
    requests,         \* the files session.get was called for in the run
    runs              \* the runs of main() started so far

vvars ==
    <<version, aversion, stderr, crash, release, compat, compatible,
      crash_dates>>

mvars ==
    <<pc, error, now, tb_versions, addons, addon_versions, date, dates, end_date,
      aversions, items, addons_count, flags_table, rows, total_compatible,
      created, updated, updates, labels, created_status, updates_status,
      rows1, rows2, top_users, top_reviews, top_rating>>

cvars == <<cache, run, call, requests, runs>>

vars == <<vvars, mvars, cvars>>

-----------------------------------------------------------------------------
(* Python values *)

\* Python's None, as a result of parse_version.
None == [none |-> TRUE]

\* A regex group that did not take part in the match (Python None); the
\* groups of VERSION_PATTERN never match the empty string.
NoGroup == <<>>

\* A variable not assigned yet.
Unset == [unset |-> TRUE]

Returned(v) == [returned |-> v]
Raised(e) == [raised |-> e]

Digits == {"0", "1", "2", "3", "4", "5", "6", "7", "8", "9"}

DigitVal(c) ==
    CASE c = "0" -> 0 [] c = "1" -> 1 [] c = "2" -> 2 [] c = "3" -> 3
      [] c = "4" -> 4 [] c = "5" -> 5 [] c = "6" -> 6 [] c = "7" -> 7
      [] c = "8" -> 8 [] c = "9" -> 9

\* int(s) of a string of decimal digits.
RECURSIVE int(_)
int(s) ==
    IF Len(s) = 0 THEN 0
    ELSE 10 * int(SubSeq(s, 1, Len(s) - 1)) + DigitVal(s[Len(s)])

\* The code point of the characters that occur in the str fields of a Version.
ord(c) ==
    CASE c = "a" -> 97 [] c = "b" -> 98 [] c = "e" -> 101
      [] c = "p" -> 112 [] c = "r" -> 114 [] c = "z" -> 122

\* Python's s < t on str: by code point at the first difference, a proper
\* prefix first.
RECURSIVE StrLT(_, _)
StrLT(s, t) ==
    IF Len(t) = 0 THEN FALSE
    ELSE IF Len(s) = 0 THEN TRUE
    ELSE IF s[1] # t[1] THEN ord(s[1]) < ord(t[1])
    ELSE StrLT(Tail(s), Tail(t))

-----------------------------------------------------------------------------
(* addons.py: VERSION_PATTERN, parse_version, is_compatible *)

APP == "thunderbird"

VERSION_PART_MAX == 65535

\* The length of the run of [0-9] that starts at position i of s.
RECURSIVE DigitRun(_, _)
DigitRun(s, i) ==
    IF i <= Len(s) /\ s[i] \in Digits THEN 1 + DigitRun(s, i + 1) ELSE 0

\* ([0-9]+|\*) at position i, or ([0-9]+) when star is FALSE (crash_stats.py):
\* the number of characters it takes, 0 for no match.
PartLen(s, i, star) ==
    LET d == DigitRun(s, i)
    IN  IF d > 0 THEN d
        ELSE IF star /\ i <= Len(s) /\ s[i] = "*" THEN 1
        ELSE 0

\* (?:\.([0-9]+|\*) ... )? at position i: the length of the part after the dot, 0
\* when the optional group matches nothing.
DotPartLen(s, i, star) ==
    IF i <= Len(s) /\ s[i] = "." THEN PartLen(s, i + 1, star) ELSE 0

\* Up to k groups (?:\.([0-9]+|\*) ...)? nested from position i: the parts that
\* match, in order.  A group that does not match ends the nesting.
RECURSIVE DotParts(_, _, _, _)
DotParts(s, i, k, star) ==
    IF k = 0 \/ DotPartLen(s, i, star) = 0 THEN <<>>
    ELSE <<SubSeq(s, i + 1, i + DotPartLen(s, i, star))>>
             \o DotParts(s, i + 1 + DotPartLen(s, i, star), k - 1, star)

\* The length of the text that the numeric parts and their dots take.
RECURSIVE PartsEnd(_)
PartsEnd(parts) ==
    IF Len(parts) = 0 THEN -1 ELSE Len(Head(parts)) + 1 + PartsEnd(Tail(parts))

\* Group k of the numeric parts, NoGroup when the group did not match.
PartGroup(parts, k) == IF k <= Len(parts) THEN parts[k] ELSE NoGroup

\* (?:(pre)([0-9])?)? at position j, given the six groups before it.
PreGroups(s, j, parts, alpha_beta, alpha_beta_ver) ==
    LET hasPre == j + 2 <= Len(s) /\ SubSeq(s, j, j + 2) = <<"p", "r", "e">>
        preLen == IF hasPre /\ j + 3 <= Len(s) /\ s[j + 3] \in Digits THEN 1 ELSE 0
    IN  [major |-> PartGroup(parts, 1), minor |-> PartGroup(parts, 2),
         micro |-> PartGroup(parts, 3), patch |-> PartGroup(parts, 4),
         alpha_beta |-> alpha_beta,
         alpha_beta_ver |-> alpha_beta_ver,
         pre |-> IF hasPre THEN <<"p", "r", "e">> ELSE NoGroup,
         pre_ver |-> IF preLen > 0 THEN <<s[j + 3]>> ELSE NoGroup,
         end |-> IF hasPre THEN j + 2 + preLen ELSE j - 1]

\* (?:([ab])([0-9]+)?)?(?:(pre)([0-9])?)? at position i, given the numeric parts:
\* the eight groups of the match.
StageGroups(s, i, parts) ==
    IF i <= Len(s) /\ s[i] \in {"a", "b"}
    THEN PreGroups(s, i + 1 + DigitRun(s, i + 1), parts, <<s[i]>>,
                   SubSeq(s, i + 1, i + DigitRun(s, i + 1)))
    ELSE PreGroups(s, i, parts, NoGroup, NoGroup)

\* The match continued after the first group.
AfterMajor(s, parts) == StageGroups(s, PartsEnd(parts) + 1, parts)

\* pattern.match(s).groups(), with "end" the length of the matched prefix; None
\* when the pattern does not match at the start of s.  Every quantifier is
\* greedy and everything after the first group is optional, so the first
\* attempt of the matcher succeeds.
PatternMatch(s, star) ==
    IF PartLen(s, 1, star) = 0 THEN None
    ELSE AfterMajor(s, <<SubSeq(s, 1, PartLen(s, 1, star))>>
                           \o DotParts(s, PartLen(s, 1, star) + 1, 3, star))

\* Mutant helper: a match only when it takes the whole text.
WholeOrNone(s, g) == IF g # None /\ g.end = Len(s) THEN g ELSE None

\* Mutant: the pattern anchored at the end of the text as well (fullmatch).
VERSION_PATTERN_fullmatch(s) == WholeOrNone(s, PatternMatch(s, TRUE))

\* addons.py VERSION_PATTERN: every numeric segment may be "*".
VERSION_PATTERN_match(s) == PatternMatch(s, TRUE)

\* Mutant: the wildcard as 1 << 16.
PartValue_shift(part) == IF part = <<"*">> THEN VERSION_PART_MAX + 1 ELSE int(part)

\* VERSION_PART_MAX if part == "*" else int(part)
PartValue(part) == IF part = <<"*">> THEN VERSION_PART_MAX ELSE int(part)

\* Mutant: an absent stage marker kept as the empty string.
OrZ_empty(group) == group

\* x or "z"
OrZ(group) == IF group = NoGroup THEN <<"z">> ELSE group

\* The Version built from the groups of a match; None without a match.
MakeVersion(g) ==
    IF g = None THEN None ELSE
    [major |-> PartValue(g.major),
     minor |-> IF g.minor # NoGroup THEN PartValue(g.minor) ELSE 0,
     micro |-> IF g.micro # NoGroup THEN PartValue(g.micro) ELSE 0,
     patch |-> IF g.patch # NoGroup THEN PartValue(g.patch) ELSE 0,
     alpha_beta |-> OrZ(g.alpha_beta),
     alpha_beta_ver |-> IF g.alpha_beta_ver # NoGroup THEN int(g.alpha_beta_ver) ELSE 0,
     pre |-> OrZ(g.pre),
     pre_ver |-> IF g.pre_ver # NoGroup THEN int(g.pre_ver) ELSE 0]

parse_version(s) == MakeVersion(VERSION_PATTERN_match(s))

\* Python's v < w on two Version tuples: the first differing field decides, int
\* fields by value and str fields by StrLT.
VersionLT(v, w) ==
    IF v.major # w.major THEN v.major < w.major
    ELSE IF v.minor # w.minor THEN v.minor < w.minor
    ELSE IF v.micro # w.micro THEN v.micro < w.micro
    ELSE IF v.patch # w.patch THEN v.patch < w.patch
    ELSE IF v.alpha_beta # w.alpha_beta THEN StrLT(v.alpha_beta, w.alpha_beta)
    ELSE IF v.alpha_beta_ver # w.alpha_beta_ver THEN v.alpha_beta_ver < w.alpha_beta_ver
    ELSE IF v.pre # w.pre THEN StrLT(v.pre, w.pre)
    ELSE v.pre_ver < w.pre_ver

VersionLE(v, w) == v = w \/ VersionLT(v, w)

\* addon_version["compatibility"] without the APP key.
NoBlock == [noblock |-> TRUE]

\* The comparison of is_compatible on the parsed bounds.  A comparison with
\* None raises TypeError; "and" evaluates its right operand only when the left
\* one is true.
InRange(lo, v, hi) ==
    IF lo = None \/ v = None THEN Raised("TypeError")
    ELSE IF ~VersionLE(lo, v) THEN Returned(FALSE)
    ELSE IF hi = None THEN Raised("TypeError")
    ELSE Returned(VersionLE(v, hi))

\* Mutant: the upper bound compared with > instead of >=.
InRange_strict(lo, v, hi) ==
    IF lo = None \/ v = None THEN Raised("TypeError")
    ELSE IF ~VersionLE(lo, v) THEN Returned(FALSE)
    ELSE IF hi = None THEN Raised("TypeError")
    ELSE Returned(VersionLT(v, hi))

\* Mutant of is_compatible.
is_compatible_strict(v, c) ==
    IF c = NoBlock THEN Raised("KeyError")
    ELSE InRange_strict(parse_version(c.min), v, parse_version(c.max))

\* is_compatible(version, addon_version): c is addon_version["compatibility"]
\* reduced to its APP block.  The subscript raises KeyError without the block.
is_compatible(v, c) ==
    IF c = NoBlock THEN Raised("KeyError")
    ELSE InRange(parse_version(c.min), v, parse_version(c.max))

-----------------------------------------------------------------------------
(* crash_stats.py: VERSION_PATTERN, parse_version, output_verion *)

\* crash_stats.py VERSION_PATTERN: numeric segments are [0-9]+ only.
crash_VERSION_PATTERN_match(s) == PatternMatch(s, FALSE)

\* crash_stats.py Version(...): the stage groups are kept as matched (None when
\* absent); None without a match.
crash_MakeVersion(g) ==
    IF g = None THEN None ELSE
    [major |-> int(g.major),
     minor |-> IF g.minor # NoGroup THEN int(g.minor) ELSE 0,
     micro |-> IF g.micro # NoGroup THEN int(g.micro) ELSE 0,
     patch |-> IF g.patch # NoGroup THEN int(g.patch) ELSE 0,
     alpha_beta |-> g.alpha_beta,
     alpha_beta_ver |-> IF g.alpha_beta_ver # NoGroup THEN int(g.alpha_beta_ver) ELSE 0,
     pre |-> g.pre,
     pre_ver |-> IF g.pre_ver # NoGroup THEN int(g.pre_ver) ELSE 0]

\* crash_stats.py parse_version
crash_parse_version(s) == crash_MakeVersion(crash_VERSION_PATTERN_match(s))

\* version.endswith("esr")
EndsWithEsr(s) ==
    Len(s) >= 3 /\ SubSeq(s, Len(s) - 2, Len(s)) = <<"e", "s", "r">>

\* The text output_verion returns for the text s parsed to v: s itself when it
\* did not parse, else the major number and the release channel.
VerionOf(s, v) ==
    IF v = None THEN [text |-> s]
    ELSE [major |-> v.major,
          release |-> IF v.alpha_beta = <<"a">> THEN "Daily"
                      ELSE IF v.alpha_beta = <<"b">> THEN "Beta"
                      ELSE IF EndsWithEsr(s) THEN "ESR"
                      ELSE "None"]

\* output_verion(version)
output_verion(s) == VerionOf(s, crash_parse_version(s))

-----------------------------------------------------------------------------
(* The texts the parsers are run on *)

MaxTokens == 4

Tokens ==
    {<<"0">>, <<"1">>, <<".">>, <<"*">>, <<"a">>, <<"b">>, <<"p">>,
     <<"p", "r", "e">>, <<"e", "s", "r">>}

\* Every concatenation of at most n tokens.
RECURSIVE TokenStrings(_)
TokenStrings(n) ==
    IF n = 0 THEN {<<>>}
    ELSE LET shorter == TokenStrings(n - 1)
         IN  shorter \cup {t \o s : t \in Tokens, s \in shorter}

\* Version strings of the kinds the add-ons server and product-details publish.
V_0_5 == <<"0", ".", "5">>
V_1_0 == <<"1", ".", "0">>
V_10 == <<"1", "0">>
V_10_0 == <<"1", "0", ".", "0">>
V_10_0a1 == <<"1", "0", ".", "0", "a", "1">>
V_10_0b1 == <<"1", "0", ".", "0", "b", "1">>
V_10_0b2 == <<"1", "0", ".", "0", "b", "2">>
V_10_0pre == <<"1", "0", ".", "0", "p", "r", "e">>
V_10_0pre1 == <<"1", "0", ".", "0", "p", "r", "e", "1">>
V_10_0pre2 == <<"1", "0", ".", "0", "p", "r", "e", "2">>
V_10_0pre10 == <<"1", "0", ".", "0", "p", "r", "e", "1", "0">>
V_10_0b1pre1 == <<"1", "0", ".", "0", "b", "1", "p", "r", "e", "1">>
V_10_star == <<"1", "0", ".", "*">>
V_10_0esr == <<"1", "0", ".", "0", "e", "s", "r">>
V_star == <<"*">>
V_65535 == <<"6", "5", "5", "3", "5", ".", "0", ".", "0", ".", "0">>
V_65535_1 == <<"6", "5", "5", "3", "5", ".", "1">>
V_65536 == <<"6", "5", "5", "3", "6">>
V_empty == <<>>

ExampleTexts ==
    {V_0_5, V_1_0, V_10, V_10_0, V_10_0a1, V_10_0b1, V_10_0b2, V_10_0pre,
     V_10_0pre1, V_10_0pre2, V_10_0pre10, V_10_0b1pre1, V_10_star, V_10_0esr,
     V_star, V_65535, V_65535_1, V_65536, V_empty}

Texts == TokenStrings(MaxTokens) \cup ExampleTexts

\* The Thunderbird versions of the table (aversions) and the min/max strings of
\* a compatibility block.
TargetTexts ==
    {V_0_5, V_10_0, V_10_0a1, V_10_0b1, V_10_0pre1, V_10_0esr, V_65535_1, V_65536,
     V_empty}

CompatTexts ==
    {V_0_5, V_1_0, V_10, V_10_0, V_10_0a1, V_10_0b1, V_10_0b2, V_10_0pre,
     V_10_0pre1, V_10_0pre2, V_10_0b1pre1, V_10_star, V_star, V_65535, V_empty}

-----------------------------------------------------------------------------
(* addons.py main(): the window of months *)

\* datetime(year, month, 1, tzinfo=timezone.utc): the first instant of a month.
Month(y, m) == [year |-> y, month |-> m]

\* a < b on two first instants of months.
MonthLT(a, b) == a.year < b.year \/ (a.year = b.year /\ a.month < b.month)

\* date < end_date of line 284.  date is the first instant of a month and t the
\* instant the run started: its year, its month, and rest = 0 exactly when it is
\* the first instant of that month.
BeforeInstant(d, t) ==
    \/ MonthLT(d, t)
    \/ (d.year = t.year /\ d.month = t.month /\ t.rest > 0)

\* The window starts in January, this many years before the previous month.
WINDOW_YEARS == 10

\* start_date: the year of the month before the run, less WINDOW_YEARS.
start_date(t) ==
    Month((IF t.month - 1 < 1 THEN t.year - 1 ELSE t.year) - WINDOW_YEARS, 1)

\* date.replace(year=year, month=month) after month + 1
NextMonth(d) ==
    IF d.month + 1 > 12 THEN Month(d.year + 1, d.month + 1 - 12)
    ELSE Month(d.year, d.month + 1)

\* dates.pop()
Pop(s) == SubSeq(s, 1, Len(s) - 1)

\* Mutant: the list in its own order.
Reversed_same(s) == s

\* list(reversed(s))
Reversed(s) == [k \in 1..Len(s) |-> s[Len(s) + 1 - k]]

-----------------------------------------------------------------------------
(* addons.py main(): the target versions *)

V_115_18_0 == <<"1", "1", "5", ".", "1", "8", ".", "0">>

\* The keys of product-details read by main(), with the names of their rows.
TB_KEYS ==
    <<[key |-> "LATEST_THUNDERBIRD_NIGHTLY_VERSION", name |-> "Daily"],
      [key |-> "LATEST_THUNDERBIRD_DEVEL_VERSION", name |-> "Beta"],
      [key |-> "LATEST_THUNDERBIRD_VERSION", name |-> "Release"],
      [key |-> "THUNDERBIRD_ESR_NEXT", name |-> "Next ESR"],
      [key |-> "THUNDERBIRD_ESR", name |-> "ESR"]>>

\* (parse_version(version), version, name)
Target(text, name) ==
    [aversion |-> parse_version(text), version |-> text, name |-> name]

\* The list aversions: the keys whose value is not empty, then "Old ESR".
RECURSIVE TargetList(_, _)
TargetList(keys, tb) ==
    IF keys = <<>> THEN <<Target(V_115_18_0, "Old ESR")>>
    ELSE (IF tb[keys[1].key] # <<>>
          THEN <<Target(tb[keys[1].key], keys[1].name)>> ELSE <<>>)
         \o TargetList(Tail(keys), tb)

-----------------------------------------------------------------------------
(* addons.py main(): compatibility counts and percentages *)

IsRaised(r) == "raised" \in DOMAIN r

\* The value of an outcome, d when it is an exception.
Value(r, d) == IF IsRaised(r) THEN d ELSE r.returned

\* The exception of an outcome, "" when there is none.
ErrorOf(r) == IF IsRaised(r) THEN r.raised ELSE ""

\* any(is_compatible(aversion, current_version) for aversion, _, _ in aversions)
\* for the compatibility c of a current version: stops at the first True or at
\* the first exception.
RECURSIVE AnyTarget(_, _)
AnyTargetStep(r, rest, c) ==
    IF IsRaised(r) THEN r
    ELSE IF r.returned THEN Returned(TRUE)
    ELSE AnyTarget(rest, c)

AnyTarget(avs, c) ==
    IF avs = <<>> THEN Returned(FALSE)
    ELSE AnyTargetStep(is_compatible(avs[1].aversion, c), Tail(avs), c)

\* A list comprehension with a condition: the outcome r of the condition for
\* element i, before the outcome of the rest of the list.
Keep(r, i, rest) ==
    IF IsRaised(r) THEN r
    ELSE IF IsRaised(rest) THEN rest
    ELSE Returned((IF r.returned THEN <<i>> ELSE <<>>) \o rest.returned)

\* items: the add-ons (by position in addons) compatible on their current
\* version with some target.
RECURSIVE FilterItems(_, _, _)
FilterItems(i, as, avs) ==
    IF i > Len(as) THEN Returned(<<>>)
    ELSE Keep(AnyTarget(avs, as[i].current_version.compatibility), i,
              FilterItems(i + 1, as, avs))

\* sum(1 for ... if cond): the outcome r of the condition, before the rest.
PlusOne(r, rest) ==
    IF IsRaised(r) THEN r
    ELSE IF IsRaised(rest) THEN rest
    ELSE Returned((IF r.returned THEN 1 ELSE 0) + rest.returned)

\* latest_count for the target v
RECURSIVE LatestCount(_, _, _)
LatestCount(i, as, v) ==
    IF i > Len(as) THEN Returned(0)
    ELSE PlusOne(is_compatible(v, as[i].current_version.compatibility),
                 LatestCount(i + 1, as, v))

\* addon_versions[key] or (addon["current_version"],)
VersionsOr(history, addon) ==
    IF history # <<>> THEN history ELSE <<addon.current_version>>

\* any(is_compatible(aversion, addon_version) for addon_version in versions
\*     if APP in addon_version["compatibility"])
RECURSIVE AnyVersion(_, _)
AnyVersionStep(r, v, rest) ==
    IF IsRaised(r) THEN r
    ELSE IF r.returned THEN Returned(TRUE)
    ELSE AnyVersion(v, rest)

AnyVersion(v, versions) ==
    IF versions = <<>> THEN Returned(FALSE)
    ELSE IF versions[1].compatibility = NoBlock THEN AnyVersion(v, Tail(versions))
    ELSE AnyVersionStep(is_compatible(v, versions[1].compatibility), v,
                        Tail(versions))

\* any_count for the target v
RECURSIVE AnyCount(_, _, _, _)
AnyCount(i, as, hs, v) ==
    IF i > Len(as) THEN Returned(0)
    ELSE PlusOne(AnyVersion(v, VersionsOr(hs[i], as[i])),
                 AnyCount(i + 1, as, hs, v))

\* The digits "{count / total:.4%}" prints, as an integer of 1/10000 percent:
\* count / total rounded to the nearest.  Zero total raises.
Percent(count, total) ==
    IF total = 0 THEN Raised("ZeroDivisionError")
    ELSE Returned((2 * 1000000 * count + total) \div (2 * total))

\* "{count:n} / {total:n} ({count / total:.4%})"
Cell(count, total, p) ==
    IF IsRaised(p) THEN p
    ELSE Returned([count |-> count, total |-> total, percent |-> p.returned])

Ratio(count, total) == Cell(count, total, Percent(count, total))

\* The attributes counted in the "Type / Count" table, in the order of its rows.
FLAGS ==
    <<"is_experimental", "is_source_public", "contributions_url",
      "requires_payment", "public_stats">>

\* sum(1 for addon in addons if addon[flag])
FlagCount(as, flag) == Cardinality({i \in 1..Len(as) : flag \in as[i].flags})

\* The rows of the "Type / Count" table; the first division raises on no add-on.
FlagsTable(as, n) ==
    IF n = 0 THEN Raised("ZeroDivisionError")
    ELSE Returned([k \in 1..Len(FLAGS) |->
                      [type |-> FLAGS[k],
                       count |-> Ratio(FlagCount(as, FLAGS[k]), n).returned]])

\* One row of the compatibility table, from the outcomes of its two counts.
CompatRowOf(av, latest, any, n) ==
    IF IsRaised(latest) THEN latest
    ELSE IF IsRaised(any) THEN any
    ELSE IF n = 0 THEN Raised("ZeroDivisionError")
    ELSE Returned([name |-> av.name, version |-> av.version,
                   latest_count |-> latest.returned,
                   latest |-> Ratio(latest.returned, n).returned,
                   any_count |-> any.returned,
                   any |-> Ratio(any.returned, n).returned])

CompatRow(av, as, hs, n) ==
    CompatRowOf(av, LatestCount(1, as, av.aversion),
                AnyCount(1, as, hs, av.aversion), n)

\* rows.append(row) for each target: the outcome of the row, before the rest.
Append1(r, rest) ==
    IF IsRaised(r) THEN r
    ELSE IF IsRaised(rest) THEN rest
    ELSE Returned(<<r.returned>> \o rest.returned)

RECURSIVE CompatRows(_, _, _, _)
CompatRows(avs, as, hs, n) ==
    IF avs = <<>> THEN Returned(<<>>)
    ELSE Append1(CompatRow(avs[1], as, hs, n), CompatRows(Tail(avs), as, hs, n))

-----------------------------------------------------------------------------
(* addons.py main(): grouping by month and the monthly series *)

Range(s) == {s[k] : k \in DOMAIN s}

\* (date.year, date.month) of addon["created"]
CreatedEvents(as) ==
    [i \in 1..Len(as) |-> [key |-> as[i].created, addon |-> i]]

\* (date.year, date.month) of addon["last_updated"]
UpdatedEvents(as) ==
    [i \in 1..Len(as) |-> [key |-> as[i].last_updated, addon |-> i]]

\* Mutant: the oldest file of the version.
MinCreated(files) ==
    IF files = <<>> THEN Raised("ValueError")
    ELSE Returned(CHOOSE f \in Range(files) :
                      \A g \in Range(files) : ~MonthLT(g, f))

\* max(file["created"] for file in version["files"]), reduced to its month:
\* the timestamps are ISO texts of one format, so the greatest text is the
\* latest instant.  max() of no file raises.
MaxCreated(files) ==
    IF files = <<>> THEN Raised("ValueError")
    ELSE Returned(CHOOSE f \in Range(files) :
                      \A g \in Range(files) : ~MonthLT(f, g))

\* One append to updates: the outcome of max(), before the rest of the loop.
Event(m, i, rest) ==
    IF IsRaised(m) THEN m
    ELSE IF IsRaised(rest) THEN rest
    ELSE Returned(<<[key |-> m.returned, addon |-> i]>> \o rest.returned)

\* for version in versions: updates[month of its newest file].append(addon)
RECURSIVE VersionEvents(_, _)
VersionEvents(i, versions) ==
    IF versions = <<>> THEN Returned(<<>>)
    ELSE Event(MaxCreated(versions[1].files), i,
               VersionEvents(i, Tail(versions)))

\* The appends of one add-on, before those of the add-ons after it.
Then(r, rest) ==
    IF IsRaised(r) THEN r
    ELSE IF IsRaised(rest) THEN rest
    ELSE Returned(r.returned \o rest.returned)

RECURSIVE UpdateEvents(_, _, _)
UpdateEvents(i, as, hs) ==
    IF i > Len(as) THEN Returned(<<>>)
    ELSE Then(VersionEvents(i, VersionsOr(hs[i], as[i])),
              UpdateEvents(i + 1, as, hs))

\* The add-ons of a list of appends.
AddonsOf(events) == [k \in 1..Len(events) |-> events[k].addon]

\* d.setdefault(key, []).append(addon) for every event in order: the dict.
Grouped(events) ==
    [d \in {events[k].key : k \in DOMAIN events} |->
        AddonsOf(SelectSeq(events, LAMBDA e : e.key = d))]

\* d.get(key, [])
Get(d, key) == IF key \in DOMAIN d THEN d[key] ELSE <<>>

\* category for addon in acreated if APP in addon["categories"]
\*          for category in addon["categories"][APP]
RECURSIVE Categories(_, _)
Categories(acreated, as) ==
    IF acreated = <<>> THEN <<>>
    ELSE (IF APP \in DOMAIN as[acreated[1]].categories
          THEN as[acreated[1]].categories[APP] ELSE <<>>)
         \o Categories(Tail(acreated), as)

\* Counter(list)
Counter(s) ==
    [c \in Range(s) |-> Cardinality({k \in DOMAIN s : s[k] = c})]

\* Mutant: the total counts the add-ons that have categories for the
\* application.
Row1_categorized(adate, acreated, as) ==
    [date |-> adate,
     created_count |->
         Len(SelectSeq(acreated, LAMBDA i : APP \in DOMAIN as[i].categories)),
     acategory_counts |-> Counter(Categories(acreated, as))]

\* The row of rows1 for a month.
Row1(adate, acreated, as) ==
    [date |-> adate, created_count |-> Len(acreated),
     acategory_counts |-> Counter(Categories(acreated, as))]

\* The row of rows2 for a month.
Row2(adate, aupdates) == [date |-> adate, updates_count |-> Len(aupdates)]

\* Mutant: the row of the last month also counts the add-ons created after it.
Rows1_clamped(ds, cr, as) ==
    [k \in 1..Len(ds) |->
        Row1(ds[Len(ds) + 1 - k],
             Get(cr, ds[Len(ds) + 1 - k])
                 \o (IF k = 1
                     THEN SelectSeq([i \in 1..Len(as) |-> i],
                                    LAMBDA i : MonthLT(ds[Len(ds)], as[i].created))
                     ELSE <<>>),
             as)]

\* for date in reversed(dates): rows1.append(...)
Rows1(ds, cr, as) ==
    [k \in 1..Len(ds) |->
        Row1(ds[Len(ds) + 1 - k], Get(cr, ds[Len(ds) + 1 - k]), as)]

\* for date in reversed(dates): rows2.append(...)
Rows2(ds, up) ==
    [k \in 1..Len(ds) |-> Row2(ds[Len(ds) + 1 - k], Get(up, ds[Len(ds) + 1 - k]))]

-----------------------------------------------------------------------------
(* addons.py main(): the leaderboards *)

\* The lengths of the leaderboards and the least number of reviews for the
\* leaderboard by rating.
TOP_USERS == 20
TOP_REVIEWS == 10
TOP_RATING == 10
MIN_REVIEWS == 10

\* Mutant: an element goes before the elements of equal key.
RECURSIVE InsertBeforeEqual(_, _, _)
InsertBeforeEqual(s, x, key) ==
    IF s = <<>> THEN <<x>>
    ELSE IF key[s[1]] > key[x] THEN <<s[1]>> \o InsertBeforeEqual(Tail(s), x, key)
    ELSE <<x>> \o s

\* The place of x in a list sorted by descending key, x being later in the
\* input than every element of the list: after the elements of greater or
\* equal key.
RECURSIVE Insert(_, _, _)
Insert(s, x, key) ==
    IF s = <<>> THEN <<x>>
    ELSE IF key[s[1]] >= key[x] THEN <<s[1]>> \o Insert(Tail(s), x, key)
    ELSE <<x>> \o s

\* sorted(s, key=..., reverse=True): descending, elements of equal key in the
\* order of s.  key maps an add-on to its key.
RECURSIVE sorted(_, _)
sorted(s, key) ==
    IF s = <<>> THEN <<>>
    ELSE Insert(sorted(SubSeq(s, 1, Len(s) - 1), key), s[Len(s)], key)

UsersKey(as) == [i \in 1..Len(as) |-> as[i].average_daily_users]
ReviewsKey(as) == [i \in 1..Len(as) |-> as[i].ratings.count]
RatingKey(as) == [i \in 1..Len(as) |-> as[i].ratings.bayesian_average]

\* addon for addon in items if addon["ratings"]["count"] >= MIN_REVIEWS
Rated(its, as) == SelectSeq(its, LAMBDA i : as[i].ratings.count >= MIN_REVIEWS)

\* The row of a leaderboard for the add-on at rank i: the check mark is
\* is_compatible(version, item["current_version"]) for the release version.
TopRow(i, item, as, v) ==
    [i |-> i, addon |-> item,
     average_daily_users |-> as[item].average_daily_users,
     ratings |-> as[item].ratings,
     compatible |-> is_compatible(v, as[item].current_version.compatibility)]

\* for i, item in enumerate(ranked, 1): rows.append(...); if i >= n: break
RECURSIVE TopRows(_, _, _, _, _)
TopRowsStep(r, i, ranked, n, as, v) ==
    IF IsRaised(r.compatible) THEN r.compatible
    ELSE IF i >= n THEN Returned(<<r>>)
    ELSE Append1(Returned(r), TopRows(i + 1, ranked, n, as, v))

TopRows(i, ranked, n, as, v) ==
    IF i > Len(ranked) THEN Returned(<<>>)
    ELSE TopRowsStep(TopRow(i, ranked[i], as, v), i, ranked, n, as, v)

-----------------------------------------------------------------------------
(* addons.py main() as a state machine: one pass over one add-on type *)

\* The empty dict.
EmptyDict == [d \in {} |-> <<>>]

\* No fetcher is called and no file is there.
NoCall == [fn |-> "none"]

CacheIdle ==
    /\ cache = EmptyDict
    /\ run = [pc |-> "idle"]
    /\ call = NoCall
    /\ requests = {}
    /\ runs = 0

\* main() has not started.
MainIdle ==
    /\ CacheIdle
    /\ pc = "idle"
    /\ error = ""
    /\ now = [year |-> 0, month |-> 0, rest |-> 0]
    /\ tb_versions = <<>>
    /\ addons = <<>>
    /\ addon_versions = <<>>
    /\ date = Month(0, 0)
    /\ dates = <<>>
    /\ end_date = Month(0, 0)
    /\ aversions = <<>>
    /\ items = <<>>
    /\ addons_count = 0
    /\ flags_table = <<>>
    /\ rows = <<>>
    /\ total_compatible = Unset
    /\ created = EmptyDict
    /\ updated = EmptyDict
    /\ updates = EmptyDict
    /\ labels = <<>>
    /\ created_status = <<>>
    /\ updates_status = <<>>
    /\ rows1 = <<>>
    /\ rows2 = <<>>
    /\ top_users = <<>>
    /\ top_reviews = <<>>
    /\ top_rating = <<>>

-----------------------------------------------------------------------------
(* The parsers as a state machine: one text, parsed by each function *)

InitParse ==
    /\ version \in Texts
    /\ aversion = Unset
    /\ stderr = Unset
    /\ crash = Unset
    /\ release = Unset
    /\ compat = NoBlock
    /\ compatible = Unset
    /\ crash_dates = Unset
    /\ MainIdle

\* addons.py parse_version(version): prints the text on failure.
ParseVersion ==
    /\ aversion = Unset
    /\ aversion' = parse_version(version)
    /\ stderr' = IF aversion' = None THEN version ELSE stderr
    /\ UNCHANGED <<version, crash, release, compat, compatible>>
    /\ UNCHANGED <<mvars, cvars, crash_dates>>

\* crash_stats.py parse_version(version)
CrashParseVersion ==
    /\ crash = Unset
    /\ crash' = crash_parse_version(version)
    /\ UNCHANGED <<version, aversion, stderr, release, compat, compatible>>
    /\ UNCHANGED <<mvars, cvars, crash_dates>>

\* crash_stats.py output_verion(version)
OutputVerion ==
    /\ release = Unset
    /\ release' = output_verion(version)
    /\ UNCHANGED <<version, aversion, stderr, crash, compat, compatible>>
    /\ UNCHANGED <<mvars, cvars, crash_dates>>

NextParse == ParseVersion \/ CrashParseVersion \/ OutputVerion

SpecParse == InitParse /\ [][NextParse]_vars

(* The compatibility test: a target version and one compatibility block *)

InitCompat ==
    /\ version \in TargetTexts
    /\ aversion = Unset
    /\ stderr = Unset
    /\ crash = Unset
    /\ release = Unset
    /\ compat \in {NoBlock} \cup [min : CompatTexts, max : CompatTexts]
    /\ compatible = Unset
    /\ crash_dates = Unset
    /\ MainIdle

\* is_compatible(aversion, addon_version) for a target of aversions
IsCompatible ==
    /\ aversion # Unset
    /\ compatible = Unset
    /\ compatible' = is_compatible(aversion, compat)
    /\ UNCHANGED <<version, aversion, stderr, crash, release, compat>>
    /\ UNCHANGED <<mvars, cvars, crash_dates>>

NextCompat == ParseVersion \/ IsCompatible

SpecCompat == InitCompat /\ [][NextCompat]_vars

-----------------------------------------------------------------------------
(* addons.py main(): the steps of one pass over one add-on type *)

\* No parser call of its own is pending.
VersionIdle ==
    /\ version = <<>>
    /\ aversion = Unset
    /\ stderr = Unset
    /\ crash = Unset
    /\ release = Unset
    /\ compat = NoBlock
    /\ compatible = Unset
    /\ crash_dates = Unset

\* main() entered at the instant t, the product details being tb.
MainStart(t, tb) ==
    /\ VersionIdle
    /\ CacheIdle
    /\ pc = "window"
    /\ error = ""
    /\ now = t
    /\ tb_versions = tb
    /\ addons = <<>>
    /\ addon_versions = <<>>
    /\ date = Month(0, 0)
    /\ dates = <<>>
    /\ end_date = Month(0, 0)
    /\ aversions = <<>>
    /\ items = <<>>
    /\ addons_count = 0
    /\ flags_table = <<>>
    /\ rows = <<>>
    /\ total_compatible = Unset
    /\ created = EmptyDict
    /\ updated = EmptyDict
    /\ updates = EmptyDict
    /\ labels = <<>>
    /\ created_status = <<>>
    /\ updates_status = <<>>
    /\ rows1 = <<>>
    /\ rows2 = <<>>
    /\ top_users = <<>>
    /\ top_reviews = <<>>
    /\ top_rating = <<>>

\* The statement after an outcome: next, or the end of the run by an exception.
Goto(r, next) ==
    /\ error' = ErrorOf(r)
    /\ pc' = IF IsRaised(r) THEN "raised" ELSE next

\* Lines 274-283: the loop starts at start_date with no month.
StartWindow ==
    /\ pc = "window"
    /\ date' = start_date(now)
    /\ dates' = <<>>
    /\ pc' = "while"
    /\ UNCHANGED <<cvars, vvars, error, now, tb_versions, addons, addon_versions,
                   end_date, aversions, items, addons_count, flags_table, rows,
                   total_compatible, created, updated, updates, labels,
                   created_status, updates_status, rows1, rows2, top_users,
                   top_reviews, top_rating>>

\* Lines 284-292: one turn of the loop.
AppendMonth ==
    /\ pc = "while"
    /\ BeforeInstant(date, now)
    /\ dates' = Append(dates, date)
    /\ date' = NextMonth(date)
    /\ UNCHANGED <<cvars, vvars, pc, error, now, tb_versions, addons, addon_versions,
                   end_date, aversions, items, addons_count, flags_table, rows,
                   total_compatible, created, updated, updates, labels,
                   created_status, updates_status, rows1, rows2, top_users,
                   top_reviews, top_rating>>

\* Lines 294-295, once the loop has ended.
PopLastMonth ==
    /\ pc = "while"
    /\ ~BeforeInstant(date, now)
    /\ dates' = Pop(dates)
    /\ end_date' = dates'[Len(dates')]
    /\ pc' = "versions"
    /\ UNCHANGED <<cvars, vvars, error, now, tb_versions, addons, addon_versions,
                   date, aversions, items, addons_count, flags_table, rows,
                   total_compatible, created, updated, updates, labels,
                   created_status, updates_status, rows1, rows2, top_users,
                   top_reviews, top_rating>>

\* Lines 303-319
TargetVersions ==
    /\ pc = "versions"
    /\ aversions' = TargetList(TB_KEYS, tb_versions)
    /\ pc' = "load"
    /\ UNCHANGED <<cvars, vvars, error, now, tb_versions, addons, addon_versions,
                   date, dates, end_date, items, addons_count, flags_table,
                   rows, total_compatible, created, updated, updates, labels,
                   created_status, updates_status, rows1, rows2, top_users,
                   top_reviews, top_rating>>

\* Lines 335-369: the add-ons as and their version histories hs are loaded,
\* from the server or from the files of the month; addon_versions[key] of
\* as[i] is hs[i].
Load(as, hs) ==
    /\ pc = "load"
    /\ addons' = as
    /\ addon_versions' = hs
    /\ pc' = "items"
    /\ UNCHANGED <<cvars, vvars, error, now, tb_versions, date, dates, end_date,
                   aversions, items, addons_count, flags_table, rows,
                   total_compatible, created, updated, updates, labels,
                   created_status, updates_status, rows1, rows2, top_users,
                   top_reviews, top_rating>>

\* What the steps after the loading leave alone.
inputs == <<now, tb_versions, addons, addon_versions, date>>

\* Lines 371-373
CompatibleItems ==
    /\ pc = "items"
    /\ Goto(FilterItems(1, addons, aversions), "flags")
    /\ items' = Value(FilterItems(1, addons, aversions), <<>>)
    /\ UNCHANGED <<cvars, vvars, inputs, dates, end_date, aversions, addons_count,
                   flags_table, rows, total_compatible, created, updated,
                   updates, labels, created_status, updates_status, rows1,
                   rows2, top_users, top_reviews, top_rating>>

\* Lines 379-405
TypeCounts ==
    /\ pc = "flags"
    /\ addons_count' = Len(addons)
    /\ Goto(FlagsTable(addons, Len(addons)), "compat")
    /\ flags_table' = Value(FlagsTable(addons, Len(addons)), <<>>)
    /\ UNCHANGED <<cvars, vvars, inputs, dates, end_date, aversions, items, rows,
                   total_compatible, created, updated, updates, labels,
                   created_status, updates_status, rows1, rows2, top_users,
                   top_reviews, top_rating>>

\* Lines 409-428
CompatTable ==
    /\ pc = "compat"
    /\ Goto(CompatRows(aversions, addons, addon_versions, addons_count), "total")
    /\ rows' = Value(CompatRows(aversions, addons, addon_versions, addons_count),
                     <<>>)
    /\ UNCHANGED <<cvars, vvars, inputs, dates, end_date, aversions, items,
                   addons_count, flags_table, total_compatible, created,
                   updated, updates, labels, created_status, updates_status,
                   rows1, rows2, top_users, top_reviews, top_rating>>

\* Line 430
TotalCompatible ==
    /\ pc = "total"
    /\ Goto(Ratio(Len(items), addons_count), "group")
    /\ total_compatible' = Value(Ratio(Len(items), addons_count), Unset)
    /\ UNCHANGED <<cvars, vvars, inputs, dates, end_date, aversions, items,
                   addons_count, flags_table, rows, created, updated, updates,
                   labels, created_status, updates_status, rows1, rows2,
                   top_users, top_reviews, top_rating>>

\* Lines 459-472
GroupByMonth ==
    /\ pc = "group"
    /\ Goto(UpdateEvents(1, addons, addon_versions), "series")
    /\ created' = Grouped(CreatedEvents(addons))
    /\ updated' = Grouped(UpdatedEvents(addons))
    /\ updates' = Grouped(Value(UpdateEvents(1, addons, addon_versions), <<>>))
    /\ UNCHANGED <<cvars, vvars, inputs, dates, end_date, aversions, items,
                   addons_count, flags_table, rows, total_compatible, labels,
                   created_status, updates_status, rows1, rows2, top_users,
                   top_reviews, top_rating>>

\* Lines 474-511
MonthlySeries ==
    /\ pc = "series"
    /\ labels' = Reversed(dates)
    /\ rows1' = Rows1(dates, created, addons)
    /\ rows2' = Rows2(dates, updates)
    /\ created_status' = [k \in 1..Len(dates) |-> rows1'[k].created_count]
    /\ updates_status' = [k \in 1..Len(dates) |-> rows2'[k].updates_count]
    /\ pc' = "users"
    /\ UNCHANGED <<cvars, vvars, inputs, error, dates, end_date, aversions, items,
                   addons_count, flags_table, rows, total_compatible, created,
                   updated, updates, top_users, top_reviews, top_rating>>

\* version = parse_version(tb_versions["LATEST_THUNDERBIRD_VERSION"]), line 521
ReleaseVersion(tb) == parse_version(tb["LATEST_THUNDERBIRD_VERSION"])

\* Lines 573-591
TopDailyUsers ==
    /\ pc = "users"
    /\ Goto(TopRows(1, sorted(items, UsersKey(addons)), TOP_USERS, addons,
                    ReleaseVersion(tb_versions)), "reviews")
    /\ top_users' = Value(TopRows(1, sorted(items, UsersKey(addons)), TOP_USERS,
                                  addons, ReleaseVersion(tb_versions)), <<>>)
    /\ UNCHANGED <<cvars, vvars, inputs, dates, end_date, aversions, items,
                   addons_count, flags_table, rows, total_compatible, created,
                   updated, updates, labels, created_status, updates_status,
                   rows1, rows2, top_reviews, top_rating>>

\* Lines 622-641
TopReviews ==
    /\ pc = "reviews"
    /\ Goto(TopRows(1, sorted(items, ReviewsKey(addons)), TOP_REVIEWS, addons,
                    ReleaseVersion(tb_versions)), "rating")
    /\ top_reviews' = Value(TopRows(1, sorted(items, ReviewsKey(addons)),
                                    TOP_REVIEWS, addons,
                                    ReleaseVersion(tb_versions)), <<>>)
    /\ UNCHANGED <<cvars, vvars, inputs, dates, end_date, aversions, items,
                   addons_count, flags_table, rows, total_compatible, created,
                   updated, updates, labels, created_status, updates_status,
                   rows1, rows2, top_users, top_rating>>

\* Lines 645-671
TopRating ==
    /\ pc = "rating"
    /\ Goto(TopRows(1, sorted(Rated(items, addons), RatingKey(addons)),
                    TOP_RATING, addons, ReleaseVersion(tb_versions)), "done")
    /\ top_rating' = Value(TopRows(1, sorted(Rated(items, addons),
                                             RatingKey(addons)), TOP_RATING,
                                   addons, ReleaseVersion(tb_versions)), <<>>)
    /\ UNCHANGED <<cvars, vvars, inputs, dates, end_date, aversions, items,
                   addons_count, flags_table, rows, total_compatible, created,
                   updated, updates, labels, created_status, updates_status,
                   rows1, rows2, top_users, top_reviews>>

\* The steps of main() but the loading.
Steps ==
    \/ StartWindow
    \/ AppendMonth
    \/ PopLastMonth
    \/ TargetVersions
    \/ CompatibleItems
    \/ TypeCounts
    \/ CompatTable
    \/ TotalCompatible
    \/ GroupByMonth
    \/ MonthlySeries
    \/ TopDailyUsers
    \/ TopReviews
    \/ TopRating

-----------------------------------------------------------------------------
(* The data main() is run on *)

V_147_0a1 == <<"1", "4", "7", ".", "0", "a", "1">>
V_146_0b1 == <<"1", "4", "6", ".", "0", "b", "1">>
V_145_0 == <<"1", "4", "5", ".", "0">>
V_140_5_0esr == <<"1", "4", "0", ".", "5", ".", "0", "e", "s", "r">>
V_115_0 == <<"1", "1", "5", ".", "0">>
V_140_star == <<"1", "4", "0", ".", "*">>
V_60_star == <<"6", "0", ".", "*">>

\* What get_tb_versions() returns: no next ESR at present.
ProductDetails ==
    [LATEST_THUNDERBIRD_NIGHTLY_VERSION |-> V_147_0a1,
     LATEST_THUNDERBIRD_DEVEL_VERSION |-> V_146_0b1,
     LATEST_THUNDERBIRD_VERSION |-> V_145_0,
     THUNDERBIRD_ESR_NEXT |-> <<>>,
     THUNDERBIRD_ESR |-> V_140_5_0esr]

\* Compatibility blocks: with every target, with the two ESR targets only, and
\* with no target.
Wide == [min |-> V_1_0, max |-> V_star]
Esr == [min |-> V_115_0, max |-> V_140_star]
Old == [min |-> V_1_0, max |-> V_60_star]

\* An instant in the course of November 2026.
RunInstant == [year |-> 2026, month |-> 11, rest |-> 1]

\* The instants of a run: in the course of a month, in the course of January,
\* and the first instant of January.
Nows ==
    {RunInstant,
     [year |-> 2026, month |-> 1, rest |-> 1],
     [year |-> 2026, month |-> 1, rest |-> 0]}

\* An add-on record, with one file created in the month the add-on was.
Addon(c, month, cats, fl, users, count, average) ==
    [current_version |-> [compatibility |-> c, files |-> <<month>>],
     created |-> month,
     last_updated |-> month,
     categories |-> cats,
     flags |-> fl,
     average_daily_users |-> users,
     ratings |-> [count |-> count, bayesian_average |-> average]]

\* An entry of a version history.
AddonVersion(c, month) == [compatibility |-> c, files |-> <<month>>]

BoundedSeq(S, n) == UNION {[1..k -> S] : k \in 0..n}

InitMain == MainStart(RunInstant, ProductDetails)

MaxAddons == 2
MaxHistory == 1
MaxRanked == 23
MaxMonthly == 4

(* Add-ons that differ in their compatibility data *)

Blocks == {NoBlock, Wide, Esr}

TableAddons ==
    {Addon(c, Month(2026, 10), [thunderbird |-> <<"calendar">>],
           IF c = Wide THEN {"is_source_public"} ELSE {}, 0, 0, 0) : c \in Blocks}

Histories ==
    BoundedSeq({AddonVersion(c, Month(2026, 10)) : c \in Blocks}, MaxHistory)

LoadTables ==
    \E n \in 0..MaxAddons :
        \E as \in [1..n -> TableAddons], hs \in [1..n -> Histories] :
            Load(as, hs)

NextTables == Steps \/ LoadTables

SpecTables == InitMain /\ [][NextTables]_vars

(* Add-ons that differ in their month of creation and their categories *)

\* Months of creation: the month before the run in November, a month in the
\* window of every run, the first month of a window, a month before every
\* window, and the month of the run in November.
CreatedMonths ==
    <<Month(2026, 10), Month(2025, 12), Month(2016, 1), Month(2014, 12),
      Month(2026, 11)>>

\* addon["categories"]: none for the application, one, two.
CategoryLists ==
    <<[firefox |-> <<"other">>], [thunderbird |-> <<"calendar">>],
      [thunderbird |-> <<"calendar", "other">>]>>

\* The i-th add-on of the list of parameters a, b, c: add-ons share months of
\* creation and differ in their categories.
MonthlyAddon(i, a, b, c) ==
    Addon(Wide, CreatedMonths[((a * i + b) % Len(CreatedMonths)) + 1],
          CategoryLists[((c * i + b) % Len(CategoryLists)) + 1], {}, 0, 0, 0)

MonthlyAddons(n, a, b, c) == [i \in 1..n |-> MonthlyAddon(i, a, b, c)]

\* No add-on was created after the month of the run; no history was loaded.
LoadMonths ==
    \E n \in 0..MaxMonthly, a \in 0..4, b \in 0..4, c \in 0..2 :
        /\ \A i \in 1..n : ~MonthLT(now, MonthlyAddon(i, a, b, c).created)
        /\ Load(MonthlyAddons(n, a, b, c), [i \in 1..n |-> <<>>])

NextMonths == Steps \/ LoadMonths

InitMonths == \E t \in Nows : MainStart(t, ProductDetails)

SpecMonths == InitMonths /\ [][NextMonths]_vars

(* Add-ons that differ in their daily users and their ratings *)

\* The i-th add-on of the list of parameters a, b, m: few distinct keys, so
\* that keys tie; some add-ons with fewer than MIN_REVIEWS reviews, some
\* compatible with no target.
RankedAddon(i, a, b, m) ==
    Addon(IF (i + b) % 12 = 0 THEN Old ELSE IF i % 2 = 0 THEN Esr ELSE Wide,
          Month(2026, 10), [thunderbird |-> <<"calendar">>],
          IF i % 2 = 1 THEN {"is_experimental"} ELSE {},
          (a * i + b) % m, 8 + ((i + a) % 4), (b * i + a) % 3)

LoadRanked ==
    \E n \in 0..MaxRanked, a \in 0..2, b \in 0..2, m \in {2, 5} :
        Load([i \in 1..n |-> RankedAddon(i, a, b, m)], [i \in 1..n |-> <<>>])

NextRanked == Steps \/ LoadRanked

SpecRanked == InitMain /\ [][NextRanked]_vars

-----------------------------------------------------------------------------
(* The version grammar and the Version ordering as the specification states *)
(* them, read off the text and not off the parser                           *)

IsNumber(t) == Len(t) > 0 /\ \A i \in 1..Len(t) : t[i] \in Digits

IsSegment(t, star) == IsNumber(t) \/ (star /\ t = <<"*">>)

\* The pieces of t between its dots.
RECURSIVE SplitDots(_)
SplitDots(t) ==
    IF \A i \in 1..Len(t) : t[i] # "." THEN <<t>>
    ELSE LET i == CHOOSE k \in 1..Len(t) :
                      t[k] = "." /\ \A j \in 1..(k - 1) : t[j] # "."
         IN  <<SubSeq(t, 1, i - 1)>> \o SplitDots(SubSeq(t, i + 1, Len(t)))

\* MAJOR(.MINOR(.MICRO(.PATCH)?)?)?
IsNumeric(t, star) ==
    LET segs == SplitDots(t)
    IN  Len(segs) <= 4 /\ \A k \in 1..Len(segs) : IsSegment(segs[k], star)

\* ([ab]N?)?
IsStage(t) ==
    Len(t) = 0 \/ (t[1] \in {"a", "b"} /\ (Len(t) = 1 \/ IsNumber(Tail(t))))

\* (pre N?)?
IsPre(t) ==
    \/ Len(t) = 0
    \/ /\ Len(t) >= 3
       /\ SubSeq(t, 1, 3) = <<"p", "r", "e">>
       /\ (Len(t) = 3 \/ IsNumber(SubSeq(t, 4, Len(t))))

\* The text as a whole is a sentence of the grammar.
InGrammar(t, star) ==
    \E i \in 0..Len(t) : \E j \in i..Len(t) :
        /\ IsNumeric(SubSeq(t, 1, i), star)
        /\ IsStage(SubSeq(t, i + 1, j))
        /\ IsPre(SubSeq(t, j + 1, Len(t)))

\* The length of the numeric part of a sentence of the grammar.
NumericEnd(t) ==
    CHOOSE i \in 0..Len(t) :
        /\ \A k \in 1..i : t[k] \in Digits \cup {".", "*"}
        /\ (i < Len(t) => t[i + 1] \notin Digits \cup {".", "*"})

\* releaseRank of a sentence: alpha 0 < beta 1 < no marker 2.
ReleaseRank(t) ==
    LET i == NumericEnd(t)
    IN  IF i < Len(t) /\ t[i + 1] = "a" THEN 0
        ELSE IF i < Len(t) /\ t[i + 1] = "b" THEN 1
        ELSE 2

\* preRank of a sentence: pre 0 < no marker 1.
PreRank(t) ==
    IF \E k \in 1..(Len(t) - 2) : SubSeq(t, k, k + 2) = <<"p", "r", "e">> THEN 0 ELSE 1

\* s < t on integer sequences of one length, lexicographically.
LexLT(s, t) ==
    \E k \in 1..Len(s) : s[k] < t[k] /\ \A j \in 1..(k - 1) : s[j] = t[j]

\* The ordering key of the Version v parsed from the sentence t.
Key(t, v) ==
    <<v.major, v.minor, v.micro, v.patch, ReleaseRank(t), v.alpha_beta_ver,
      PreRank(t), v.pre_ver>>

SameNumericParts(v, w) ==
    v.major = w.major /\ v.minor = w.minor /\ v.micro = w.micro /\ v.patch = w.patch

\* The three texts of a state of the compatibility test.
CompatStateTexts ==
    IF compat = NoBlock THEN {version} ELSE {version, compat.min, compat.max}

-----------------------------------------------------------------------------
(* C1 *)

\* C1: for any two sentences of the grammar, the parsed Versions compare (by
\* the comparison Python applies to the tuples) as their keys (major, minor,
\* micro, patch, releaseRank, releaseStageVersion, preRank, preStageVersion)
\* compare lexicographically, with alpha < beta < no stage and pre < no pre;
\* with the same four numeric parts no marker > b marker > a marker, and with
\* all earlier fields equal no pre > pre.
C1_VersionOrdering ==
    aversion # Unset =>
        \A s \in CompatStateTexts : \A t \in CompatStateTexts :
            (InGrammar(s, TRUE) /\ InGrammar(t, TRUE)) =>
                LET v == parse_version(s)
                    w == parse_version(t)
                IN  /\ v # None /\ w # None
                    /\ VersionLT(v, w) <=> LexLT(Key(s, v), Key(t, w))
                    /\ (SameNumericParts(v, w) /\ ReleaseRank(s) < ReleaseRank(t))
                           => VersionLT(v, w)
                    /\ (/\ SameNumericParts(v, w)
                        /\ ReleaseRank(s) = ReleaseRank(t)
                        /\ v.alpha_beta_ver = w.alpha_beta_ver
                        /\ PreRank(s) < PreRank(t)) => VersionLT(v, w)

\* C1 witness: the release 10.0 met a range from 10.0b1 to 10.0 and was found
\* inside it (10.0b1 < 10.0).
C1_Witness ==
    /\ version = V_10_0
    /\ aversion = parse_version(V_10_0)
    /\ compat = [min |-> V_10_0b1, max |-> V_10_0]
    /\ compatible = Returned(TRUE)

-----------------------------------------------------------------------------
(* C2 *)

\* The ordering key of a Version, with the ranks of its stage fields.
VersionKey(v) ==
    <<v.major, v.minor, v.micro, v.patch,
      IF v.alpha_beta = <<"a">> THEN 0 ELSE IF v.alpha_beta = <<"b">> THEN 1 ELSE 2,
      v.alpha_beta_ver,
      IF v.pre = <<"p", "r", "e">> THEN 0 ELSE 1,
      v.pre_ver>>

KeyLE(v, w) == VersionKey(v) = VersionKey(w) \/ LexLT(VersionKey(v), VersionKey(w))

\* C2: when the target and both compatibility strings parse, is_compatible
\* returns true exactly when parse(min) <= target and parse(max) >= target in
\* the Version ordering; target 10.0 is inside {min 1.0, max *} and target 0.5
\* is not.
C2_CompatibleIffInRange ==
    (compatible # Unset /\ compat # NoBlock /\ aversion # None
        /\ parse_version(compat.min) # None /\ parse_version(compat.max) # None) =>
        /\ compatible = Returned(KeyLE(parse_version(compat.min), aversion)
                                 /\ KeyLE(aversion, parse_version(compat.max)))
        /\ (version = V_10_0 /\ compat = [min |-> V_1_0, max |-> V_star])
               => compatible = Returned(TRUE)
        /\ (version = V_0_5 /\ compat = [min |-> V_1_0, max |-> V_star])
               => compatible = Returned(FALSE)

\* C2 witness: target 10.0 was tested against {min 1.0, max *} and found
\* compatible.
C2_Witness ==
    /\ version = V_10_0
    /\ compat = [min |-> V_1_0, max |-> V_star]
    /\ compatible = Returned(TRUE)

-----------------------------------------------------------------------------
(* C4 *)

StartsWithSegment(t, star) ==
    Len(t) > 0 /\ (t[1] \in Digits \/ (star /\ t[1] = "*"))

\* C4 as claimed: every text that is not a sentence of the grammar gets a parse
\* error from parse_version (no Version, the text reported), and the
\* crash-stats parser also rejects every text with a * segment.
C4_Original ==
    /\ (aversion # Unset /\ ~InGrammar(version, TRUE))
           => (aversion = None /\ stderr = version)
    /\ (crash # Unset /\ ~InGrammar(version, FALSE)) => crash = None

\* C4 as amended: parse_version signals a parse error (no Version, the text
\* reported) exactly for the texts that do not begin with a decimal digit or *
\* (crash-stats parser: with a decimal digit); for every other text it returns
\* the Version of a leading part of the text that is a sentence of the grammar
\* and reports nothing, whatever follows that part.
C4_ParseErrorIffNoLeadingSegment ==
    /\ aversion # Unset =>
           /\ aversion = None <=> ~StartsWithSegment(version, TRUE)
           /\ aversion = None => stderr = version
           /\ aversion # None =>
                  /\ stderr = Unset
                  /\ \E k \in 1..Len(version) :
                         /\ InGrammar(SubSeq(version, 1, k), TRUE)
                         /\ aversion = parse_version(SubSeq(version, 1, k))
    /\ crash # Unset =>
           /\ crash = None <=> ~StartsWithSegment(version, FALSE)
           /\ crash # None =>
                  \E k \in 1..Len(version) :
                      /\ InGrammar(SubSeq(version, 1, k), FALSE)
                      /\ crash = crash_parse_version(SubSeq(version, 1, k))

\* C4 witness: a text outside the grammar was parsed by both parsers; the
\* add-on parser returned a Version for it and the crash-stats parser, which
\* stops at the * segment, returned one too.
C4_Witness ==
    /\ ~InGrammar(version, TRUE)
    /\ aversion \notin {Unset, None}
    /\ crash \notin {Unset, None}
    /\ \E i \in 1..Len(version) : version[i] = "*"

-----------------------------------------------------------------------------
(* C10 *)

\* parse("*")
WildcardVersion ==
    [major |-> 65535, minor |-> 0, micro |-> 0, patch |-> 0,
     alpha_beta |-> <<"z">>, alpha_beta_ver |-> 0, pre |-> <<"z">>, pre_ver |-> 0]

\* The value the claim gives segment k of the numeric text t.
SegmentValue(t, k) ==
    LET segs == SplitDots(t)
    IN  IF k > Len(segs) THEN 0
        ELSE IF segs[k] = <<"*">> THEN 65535
        ELSE int(segs[k])

\* Every * segment is 65535 and every omitted segment 0; "*" and "65535.0.0.0"
\* parse to the same Version.
C10_SentinelMapping ==
    /\ (aversion # Unset /\ IsNumeric(version, TRUE)) =>
           /\ aversion # None
           /\ aversion.major = SegmentValue(version, 1)
           /\ aversion.minor = SegmentValue(version, 2)
           /\ aversion.micro = SegmentValue(version, 3)
           /\ aversion.patch = SegmentValue(version, 4)
    /\ (aversion # Unset /\ version \in {V_star, V_65535}) => aversion = WildcardVersion

\* C10 as claimed: the mapping, and parse("*") >= every Version whose major
\* part is at most 65535 and not >= a Version whose major part is above 65535.
C10_Original ==
    /\ C10_SentinelMapping
    /\ (aversion \notin {Unset, None} /\ aversion.major <= 65535)
           => VersionLE(aversion, WildcardVersion)
    /\ (aversion \notin {Unset, None} /\ aversion.major > 65535)
           => ~VersionLE(aversion, WildcardVersion)

\* C10 as amended: the mapping, and parse("*") >= every Version whose major
\* part is below 65535, not >= a Version whose major part is above 65535, and
\* >= a Version whose major part is 65535 only when its remaining fields do not
\* exceed those of parse("*") (65535.1 and *.1 are greater than *).
C10_BoundedSentinel ==
    /\ C10_SentinelMapping
    /\ (aversion \notin {Unset, None} /\ aversion.major < 65535)
           => VersionLE(aversion, WildcardVersion)
    /\ (aversion \notin {Unset, None} /\ aversion.major > 65535)
           => ~VersionLE(aversion, WildcardVersion)
    /\ (aversion \notin {Unset, None} /\ aversion.major = 65535)
           => (VersionLE(aversion, WildcardVersion)
                  <=> KeyLE(aversion, WildcardVersion))
    /\ (aversion # Unset /\ version = V_65535_1)
           => ~VersionLE(aversion, WildcardVersion)

\* C10 witness: "*" was parsed, to the Version of "65535.0.0.0".
C10_Witness ==
    /\ version = V_star
    /\ aversion = WildcardVersion
    /\ aversion = parse_version(V_65535)

-----------------------------------------------------------------------------
(* The report pipeline *)

\* The add-ons by their position in the loaded list.
AddonIds == 1..Len(addons)

\* The run has computed the compatibility table.
TableDone == pc \in {"total", "group", "series", "users", "reviews", "rating", "done"}

\* The target v lies in the range of the compatibility block c.
CompatibleWith(v, c) == c # NoBlock /\ is_compatible(v, c) = Returned(TRUE)

\* The history entries of add-on i that declare the application.
Qualifying(i) ==
    {k \in 1..Len(addon_versions[i]) : addon_versions[i][k].compatibility # NoBlock}

\* The policy of "Any Add-on Version": the current version, or a history entry
\* that declares the application; the current version alone when no entry
\* qualifies.
AnyAddonVersion(v, i) ==
    \/ CompatibleWith(v, addons[i].current_version.compatibility)
    \/ \E k \in Qualifying(i) :
           CompatibleWith(v, addon_versions[i][k].compatibility)

\* C3 (as stated): in every row of the compatibility table the "Any Add-on
\* Version" count is the number of add-ons whose current version, or one of
\* whose history entries declaring the application, is compatible with the
\* target of the row; an add-on without such an entry is judged on its current
\* version alone.
C3_Original ==
    TableDone =>
        \A k \in 1..Len(rows) :
            rows[k].any_count =
                Cardinality({i \in AddonIds :
                                AnyAddonVersion(aversions[k].aversion, i)})

\* C8 (as stated): with no add-on loaded the run does not end by a division
\* by zero; it goes on past the tables of percentages.
C8_Original ==
    (pc \notin {"idle", "window", "while", "versions", "load"} /\ Len(addons) = 0)
        => (error # "ZeroDivisionError" /\ pc # "raised")

\* The add-ons whose current version, or one of whose history entries, has no
\* compatibility block for the application.
MissingBlock ==
    {i \in AddonIds :
        \/ addons[i].current_version.compatibility = NoBlock
        \/ \E k \in 1..Len(addon_versions[i]) :
               addon_versions[i][k].compatibility = NoBlock}

\* C9 (as stated): an add-on without a compatibility block for the application,
\* on its current version or on a history entry, does not make the run fail;
\* it is left out of the compatible items when the block is missing on the
\* current version, and it is counted in the total number of add-ons.
C9_Original ==
    MissingBlock # {} =>
        /\ error = ""
        /\ TableDone =>
              /\ addons_count = Len(addons)
              /\ \A k \in 1..Len(items) :
                     addons[items[k]].current_version.compatibility # NoBlock

\* The number of a month in the calendar, one more from each month to the next.
MonthNumber(m) == 12 * m.year + m.month - 1

\* The monthly series have been written.
SeriesDone == pc \in {"users", "reviews", "rating", "done"}

\* The add-ons created in the month m, read off the loaded data.
CreatedIn(m) == {i \in AddonIds : addons[i].created = m}

\* The versions released in the month m, read off the loaded data: add-on and
\* place in its history, place 0 for the current version of an add-on without
\* history.
ReleasedIn(m) ==
    {<<i, k>> \in AddonIds \X (0..MaxHistory + 1) :
        \/ k = 0 /\ addon_versions[i] = <<>>
                 /\ \E f \in DOMAIN addons[i].current_version.files :
                        addons[i].current_version.files[f] = m
        \/ k \in 1..Len(addon_versions[i])
                 /\ \E f \in DOMAIN addon_versions[i][k].files :
                        addon_versions[i][k].files[f] = m}

\* C5: the months are enumerated before any add-on is loaded or grouped; the
\* labels are calendar months in strictly descending order, each the month
\* before the one above it; labels, both series and both tables have one entry
\* per enumerated month, the k-th of each for the k-th label; a month with no
\* add-on has a row with count 0.
C5_MonthlyBuckets ==
    /\ pc \in {"window", "while"} =>
          addons = <<>> /\ created = EmptyDict /\ updates = EmptyDict
    /\ pc \notin {"idle", "window", "while"} => Len(dates) >= 1
    /\ SeriesDone =>
          /\ Len(labels) = Len(dates)
          /\ Len(rows1) = Len(dates)
          /\ Len(rows2) = Len(dates)
          /\ Len(created_status) = Len(dates)
          /\ Len(updates_status) = Len(dates)
          /\ \A k \in 1..Len(labels) :
                /\ labels[k].month \in 1..12
                /\ labels[k] = dates[Len(dates) + 1 - k]
                /\ k < Len(labels) =>
                      MonthNumber(labels[k]) = MonthNumber(labels[k + 1]) + 1
                /\ rows1[k].date = labels[k]
                /\ rows2[k].date = labels[k]
                /\ created_status[k] = rows1[k].created_count
                /\ updates_status[k] = rows2[k].updates_count
                /\ CreatedIn(labels[k]) = {} => created_status[k] = 0
                /\ ReleasedIn(labels[k]) = {} => updates_status[k] = 0

\* A finished report of more than a hundred months across a change of year,
\* with a month of no add-on between two months with add-ons.
C5_Witness ==
    /\ pc = "done"
    /\ Len(labels) > 100
    /\ \E k \in 2..Len(labels) - 1 :
          /\ created_status[k] = 0
          /\ \E j \in 1..k - 1 : created_status[j] > 0
          /\ \E j \in k + 1..Len(labels) : created_status[j] > 0
    /\ \E k \in 1..Len(labels) - 1 :
          labels[k].month = 1 /\ labels[k + 1].month = 12

\* The add-ons created in the month m that list the category c for the
\* application.
CreatedInCategory(m, c) ==
    {i \in CreatedIn(m) :
        /\ APP \in DOMAIN addons[i].categories
        /\ \E j \in DOMAIN addons[i].categories[APP] :
               addons[i].categories[APP][j] = c}

\* The categories the loaded add-ons may list.
CategoryNames == {"calendar", "other"}

\* The count of category c in a row, 0 when the row does not list it.
CategoryCount(row, c) ==
    IF c \in DOMAIN row.acategory_counts THEN row.acategory_counts[c] ELSE 0

\* C6: in every month of the report "Total Created" is the number of add-ons
\* created in that month, whatever their categories; each category of the row
\* counts the add-ons created in that month that list it, and the row lists no
\* other category.
C6_TotalCreated ==
    SeriesDone =>
        \A k \in 1..Len(rows1) :
            /\ rows1[k].created_count = Cardinality(CreatedIn(rows1[k].date))
            /\ created_status[k] = Cardinality(CreatedIn(rows1[k].date))
            /\ DOMAIN rows1[k].acategory_counts \subseteq CategoryNames
            /\ \A c \in CategoryNames :
                   CategoryCount(rows1[k], c) =
                       Cardinality(CreatedInCategory(rows1[k].date, c))

\* A month with two add-ons, one without category for the application and one
\* with two: the total is 2 and each of the two categories counts 1.
C6_Witness ==
    /\ pc = "done"
    /\ \E k \in 1..Len(rows1) :
          /\ rows1[k].created_count = 2
          /\ \E i \in CreatedIn(rows1[k].date) :
                 APP \notin DOMAIN addons[i].categories
          /\ \E i \in CreatedIn(rows1[k].date) :
                 /\ APP \in DOMAIN addons[i].categories
                 /\ Len(addons[i].categories[APP]) = 2
          /\ CategoryCount(rows1[k], "calendar") = 1
          /\ CategoryCount(rows1[k], "other") = 1

Min(a, b) == IF a <= b THEN a ELSE b

\* The add-ons of a leaderboard, from the first row down.
Listed(board) == [k \in 1..Len(board) |-> board[k].addon]

\* x is ranked ahead of y: by greater key, and by earlier place in the input
\* on equal keys.
Ahead(x, y, key) == key[x] > key[y] \/ (key[x] = key[y] /\ x < y)

\* board lists the first n of the eligible add-ons in the order of Ahead: as
\* many rows as n or the number of eligible add-ons, whichever is less, every
\* row ahead of the next, and every eligible add-on that is left out behind
\* every row.
IsTop(board, n, eligible, key) ==
    /\ Len(board) = Min(n, Cardinality(eligible))
    /\ \A k \in 1..Len(board) :
          /\ board[k].i = k
          /\ board[k].addon \in eligible
          /\ k < Len(board) => Ahead(board[k].addon, board[k + 1].addon, key)
          /\ \A x \in eligible \ Range(Listed(board)) :
                 Ahead(board[k].addon, x, key)

\* The eligible add-ons: the compatible items, listed in their input order.
Eligible == Range(items)

\* The compatible items with ten reviews or more.
EligibleRated == {x \in Eligible : addons[x].ratings.count >= 10}

\* C7: the leaderboard by daily users lists the first 20, the one by reviews
\* the first 10 of the compatible add-ons, the one by rating the first 10 of
\* those with at least 10 reviews: as many as there are when fewer, by
\* descending key, add-ons of equal key in their input order.  Of A with 5
\* users, B with 5 and C with 9, in this order, the first two are C, A.
C7_TopN ==
    /\ \A k \in 1..Len(items) - 1 : items[k] < items[k + 1]
    /\ pc \in {"reviews", "rating", "done"} =>
          /\ IsTop(top_users, 20, Eligible,
                   [x \in AddonIds |-> addons[x].average_daily_users])
          /\ \A k \in 1..Len(top_users) :
                 top_users[k].average_daily_users =
                     addons[top_users[k].addon].average_daily_users
    /\ pc \in {"rating", "done"} =>
          /\ IsTop(top_reviews, 10, Eligible,
                   [x \in AddonIds |-> addons[x].ratings.count])
          /\ \A k \in 1..Len(top_reviews) :
                 top_reviews[k].ratings = addons[top_reviews[k].addon].ratings
    /\ pc = "done" =>
          /\ IsTop(top_rating, 10, EligibleRated,
                   [x \in AddonIds |-> addons[x].ratings.bayesian_average])
          /\ \A k \in 1..Len(top_rating) :
                 top_rating[k].ratings = addons[top_rating[k].addon].ratings
    /\ SubSeq(sorted(<<1, 2, 3>>, <<5, 5, 9>>), 1, 2) = <<3, 1>>

\* A finished report with more compatible add-ons than the longest leaderboard
\* and more rated ones than the leaderboard by rating, an add-on compatible
\* with no target, equal keys next to each other on the leaderboard by daily
\* users, and an add-on left out of it with the key of its last row.
C7_Witness ==
    /\ pc = "done"
    /\ Len(items) > 20
    /\ Len(items) < Len(addons)
    /\ Len(top_users) = 20
    /\ Len(top_reviews) = 10
    /\ Cardinality(EligibleRated) > 10
    /\ Cardinality(EligibleRated) < Len(items)
    /\ Len(top_rating) = 10
    /\ \E k \in 1..19 :
          top_users[k].average_daily_users = top_users[k + 1].average_daily_users
    /\ \E x \in Eligible \ Range(Listed(top_users)) :
          addons[x].average_daily_users = top_users[20].average_daily_users

-----------------------------------------------------------------------------
(* Add-ons that differ in their versions and the files of their versions *)

\* version["files"] reduced to the months of file["created"]: one file, two
\* files of different months in either order, two files of one month, no file.
FileLists ==
    <<<<Month(2026, 10)>>, <<Month(2026, 9), Month(2026, 10)>>,
      <<Month(2025, 12)>>, <<Month(2026, 10), Month(2025, 12)>>,
      <<Month(2026, 9), Month(2026, 9)>>, <<>>>>

FileList(j) == FileLists[(j % Len(FileLists)) + 1]

MaxUpdated == 3

\* The i-th add-on of the list of parameter a.
UpdatedAddon(i, a) ==
    [Addon(Wide, Month(2025, 12), [thunderbird |-> <<"calendar">>], {}, 0, 0, 0)
        EXCEPT !.current_version.files = FileList(a * i)]

\* The history of the i-th add-on: none, one or two entries.
UpdatedHistory(i, a, b) ==
    [k \in 1..((i + b) % 3) |->
        [compatibility |-> Wide, files |-> FileList(a * i + b + k)]]

LoadUpdates ==
    \E n \in 0..MaxUpdated, a \in 0..5, b \in 0..5 :
        Load([i \in 1..n |-> UpdatedAddon(i, a)],
             [i \in 1..n |-> UpdatedHistory(i, a, b)])

NextUpdates == Steps \/ LoadUpdates

SpecUpdates == InitMain /\ [][NextUpdates]_vars

\* The version entries main() goes over for add-on i: its history, its current
\* version when it has no history.
VersionsOf(i) ==
    IF Len(addon_versions[i]) = 0 THEN <<addons[i].current_version>>
    ELSE addon_versions[i]

\* Add-on and place of every such version entry.
VersionEntries ==
    UNION {{<<i, k>> : k \in 1..Len(VersionsOf(i))} : i \in AddonIds}

\* Add-on, place of the version and place of the file of every file of these.
FileEntries ==
    UNION {{<<e[1], e[2], f>> : f \in 1..Len(VersionsOf(e[1])[e[2]].files)} :
              e \in VersionEntries}

\* The entries of the dict updates: key and place in the list of the key.
UpdateEntries ==
    UNION {{<<m, j>> : j \in 1..Len(updates[m])} : m \in DOMAIN updates}

\* The latest month of a list of months.
Newest(files) ==
    CHOOSE m \in Range(files) :
        \A g \in Range(files) : MonthNumber(g) <= MonthNumber(m)

\* The grouping of main() has ended without an exception.
GroupDone == pc = "series" \/ SeriesDone

\* C11 (as stated): every file-creation timestamp of the version entries is
\* one entry of updates, in the bucket of its month; the entries are as many as
\* the timestamps.
C11_Original ==
    GroupDone =>
        /\ Cardinality(UpdateEntries) = Cardinality(FileEntries)
        /\ \A m \in DOMAIN updates :
               Len(updates[m]) =
                   Cardinality({e \in FileEntries :
                                   VersionsOf(e[1])[e[2]].files[e[3]] = m})

\* C11: every version entry (the current version when the history is empty) is
\* one entry of updates, in the month of the newest of its files, whatever the
\* number of its files; the entries of updates are as many as the version
\* entries, and "Total Updates" of a month is the number of version entries
\* whose newest file is of that month.  A version entry without file ends the
\* run with ValueError, and nothing else does.
C11_OneEntryPerVersion ==
    /\ GroupDone =>
          /\ \A e \in VersionEntries : Len(VersionsOf(e[1])[e[2]].files) > 0
          /\ Cardinality(UpdateEntries) = Cardinality(VersionEntries)
          /\ \A m \in DOMAIN updates :
                 /\ Len(updates[m]) =
                        Cardinality({e \in VersionEntries :
                                        Newest(VersionsOf(e[1])[e[2]].files) = m})
                 /\ \A j \in 1..Len(updates[m]) :
                        \E k \in 1..Len(VersionsOf(updates[m][j])) :
                            Newest(VersionsOf(updates[m][j])[k].files) = m
    /\ SeriesDone =>
          \A k \in 1..Len(rows2) :
              rows2[k].updates_count =
                  Cardinality({e \in VersionEntries :
                                  Newest(VersionsOf(e[1])[e[2]].files)
                                      = rows2[k].date})
    /\ (pc = "raised" /\ error = "ValueError") =>
          \E e \in VersionEntries : Len(VersionsOf(e[1])[e[2]].files) = 0
    /\ (pc = "raised" /\ Len(addons) > 0) => error = "ValueError"

\* A finished report on an add-on of two versions, one of them with two files
\* of different months, and an add-on without history: the add-on of two
\* versions has two entries, the version of two files one.
C11_Witness ==
    /\ pc = "done"
    /\ \E i \in AddonIds : Len(addon_versions[i]) = 0
    /\ \E i \in AddonIds :
          /\ Len(addon_versions[i]) = 2
          /\ \E k \in 1..2 :
                 /\ Len(addon_versions[i][k].files) = 2
                 /\ addon_versions[i][k].files[1] # addon_versions[i][k].files[2]
    /\ Cardinality(FileEntries) > Cardinality(VersionEntries)
    /\ Cardinality(UpdateEntries) = Cardinality(VersionEntries)

-----------------------------------------------------------------------------
(* C12: add-ons created outside the enumerated months *)

\* The add-on i was created in one of the enumerated months.
Bucketed(i) == \E k \in 1..Len(dates) : dates[k] = addons[i].created

\* The add-on i was created before the first enumerated month or after the
\* last one.
OutOfWindow(i) ==
    \/ MonthLT(addons[i].created, dates[1])
    \/ MonthLT(dates[Len(dates)], addons[i].created)

\* The sum of "Total Created" over the rows: one pair per row and unit of its
\* count.
TotalCreatedSum ==
    Cardinality(UNION {{k} \X (1..rows1[k].created_count) : k \in 1..Len(rows1)})

\* C12: an add-on created before the first enumerated month or after the last
\* one is in the list of no row's month and is still counted in the number of
\* add-ons; the sum of "Total Created" over the rows is at most the number of
\* add-ons, and equal to it exactly when every add-on was created in an
\* enumerated month.
C12_DroppedFromBuckets ==
    SeriesDone =>
        /\ addons_count = Len(addons)
        /\ \A i \in AddonIds :
              /\ OutOfWindow(i) <=> ~Bucketed(i)
              /\ OutOfWindow(i) =>
                    \A k \in 1..Len(rows1) :
                        /\ i \notin Range(Get(created, rows1[k].date))
                        /\ rows1[k].date # addons[i].created
        /\ TotalCreatedSum = Cardinality({i \in AddonIds : Bucketed(i)})
        /\ TotalCreatedSum <= addons_count
        /\ TotalCreatedSum = addons_count <=> \A i \in AddonIds : Bucketed(i)

\* A finished report of three add-ons or more: one created before the first
\* month, one created in the month of the run, after the last month, and the
\* others in the rows.
C12_Witness ==
    /\ pc = "done"
    /\ addons_count >= 3
    /\ \E i \in AddonIds : MonthLT(addons[i].created, dates[1])
    /\ \E i \in AddonIds : MonthLT(dates[Len(dates)], addons[i].created)
    /\ TotalCreatedSum = addons_count - 2
    /\ TotalCreatedSum >= 1

-----------------------------------------------------------------------------
(* C13: the number after the pre marker *)

\* The text after the pre marker of a sentence with one.
PreNumber(t) ==
    LET k == CHOOSE k \in 1..(Len(t) - 2) : SubSeq(t, k, k + 2) = <<"p", "r", "e">>
    IN  SubSeq(t, k + 3, Len(t))

\* The sentence t has a pre marker followed by a number.
HasPreNumber(t, star) ==
    InGrammar(t, star) /\ PreRank(t) = 0 /\ PreNumber(t) # <<>>

\* C13 as claimed: for a version string whose pre marker is followed by a
\* decimal number N of any number of digits, the parsed preStageVersion is N, in
\* both parsers, and parse("10.0pre2") < parse("10.0pre10").
C13_Original ==
    /\ (aversion \notin {Unset, None} /\ HasPreNumber(version, TRUE))
           => aversion.pre_ver = int(PreNumber(version))
    /\ (crash \notin {Unset, None} /\ HasPreNumber(version, FALSE))
           => crash.pre_ver = int(PreNumber(version))
    /\ (aversion \notin {Unset, None} /\ version = V_10_0pre10)
           => VersionLT(parse_version(V_10_0pre2), aversion)

-----------------------------------------------------------------------------
(* addons.py: the fetchers and the files of the report month *)

MaxRuns == 3
MaxPages == 2

\* The month the runs report on: the month before that of their instants.
ReportMonth == Month(2026, 10)

\* for atype, name in (("extension", "Extension"), ("statictheme", "Theme"))
ATYPES == <<"extension", "statictheme">>

\* os.path.join(f"{end_date:%Y-%m}", "languages.json")
LanguagesFile(m) == [dir |-> m, name |-> <<"languages.json">>]

\* os.path.join(f"{end_date:%Y-%m}", f"ATN_{atype}s.json")
AddonsFile(m, t) == [dir |-> m, name |-> <<"ATN_", t, "s.json">>]

\* os.path.join(f"{end_date:%Y-%m}", f"ATN_{atype}_versions.json")
VersionsFile(m, t) == [dir |-> m, name |-> <<"ATN_", t, "_versions.json">>]

\* Mutant: the file is never found.
exists_never(path) == FALSE

\* os.path.exists(file)
exists(path) == path \in DOMAIN cache

\* json.dump(data, f, ...): the text of the file.  The data are JSON values
\* with string keys, which the text holds as they are.
dump(data) == [text |-> data]

\* json.load(f)
load(content) == content.text

\* The dict d with d[key] = value.
Put(d, key, value) ==
    [k \in DOMAIN d \cup {key} |-> IF k = key THEN value ELSE d[k]]

\* The answers of a server to one request: status 200 with the results of the
\* page and whether a page follows, an HTTP error status (raise_for_status
\* raises HTTPError), or no answer (RequestException), status 0.
Ok(results, next) == [status |-> 200, results |-> results, next |-> next]
Failed(status) == [status |-> status, results |-> <<>>, next |-> FALSE]
ErrorStatuses == {401, 404, 500, 0}

\* The languages the server publishes.
LanguagesData == [l \in {"en-US"} |-> "English (US)"]

\* Page p of the add-ons of type t: one add-on a page.
AddonsPage(t, p) == <<[id |-> p, slug |-> t]>>

\* Page p of the versions of the add-on: one version a page.
VersionsPage(addon, p) == <<[id |-> <<addon.id, p>>]>>

\* Whether a page follows page p: the server decides, up to MaxPages pages.
Nexts(p) == IF p < MaxPages THEN BOOLEAN ELSE {FALSE}

\* f"{addon['id']}-{addon['slug']}"
KeyOf(addon) == <<addon.id, addon.slug>>

\* One more session.get for the file.
Requested(path) == requests \cup {path}

\* The locals of main() at its start, for the report month m.
RunStart(m) ==
    [pc |-> "languages", end_date |-> m, languages |-> EmptyDict, atype |-> 1,
     addons |-> <<>>, addon_versions |-> EmptyDict, i |-> 0]

\* The process has ended before main() returned: its locals are gone.
Ended == [RunStart(run.end_date) EXCEPT !.pc = "exit"]

\* The call of a fetcher at its first page.
Call(fn) ==
    [fn |-> fn, page |-> 1, list |-> <<>>, served |-> <<>>, returned |-> FALSE]

\* main() is started, in the same month as the run before: no run is under
\* way.
RunMain ==
    /\ pc = "idle"
    /\ run.pc \in {"idle", "exit", "loaded"}
    /\ runs < MaxRuns
    /\ run' = RunStart(ReportMonth)
    /\ runs' = runs + 1
    /\ call' = NoCall
    /\ requests' = {}
    /\ UNCHANGED <<vvars, mvars, cache>>

\* get_languages(): what it returns on the answer r of the server.
get_languages(r) == IF r.status = 200 THEN r.results ELSE EmptyDict

\* Lines 321-330: the languages of the report month.
Languages ==
    /\ run.pc = "languages"
    /\ IF ~exists(LanguagesFile(run.end_date))
       THEN \E r \in {Ok(LanguagesData, FALSE)}
                         \cup {Failed(s) : s \in ErrorStatuses} :
               /\ requests' = Requested(LanguagesFile(run.end_date))
               /\ cache' = Put(cache, LanguagesFile(run.end_date),
                               dump(get_languages(r)))
               /\ run' = [run EXCEPT !.languages = get_languages(r),
                                     !.pc = "addons"]
       ELSE /\ run' = [run EXCEPT
                          !.languages = load(cache[LanguagesFile(run.end_date)]),
                          !.pc = "addons"]
            /\ UNCHANGED <<cache, requests>>
    /\ UNCHANGED <<vvars, mvars, call, runs>>

\* The add-on type of the pass of the loop of line 332.
AType == ATYPES[run.atype]

\* Lines 335-349: the add-ons of the type, read from the file of the month or
\* asked from the server.
Addons ==
    /\ run.pc = "addons"
    /\ IF ~exists(AddonsFile(run.end_date, AType))
       THEN /\ call' = Call("get_addons")
            /\ run' = [run EXCEPT !.pc = "get_addons"]
       ELSE /\ call' = NoCall
            /\ run' = [run EXCEPT
                          !.addons = load(cache[AddonsFile(run.end_date, AType)]),
                          !.pc = "versions"]
    /\ UNCHANGED <<vvars, mvars, cache, requests, runs>>

\* The fetcher after the answer r to its request: sys.exit(1).
Exit(r) == [call EXCEPT !.served = Append(@, r)]

\* The fetcher after the answer r with a page to follow: page += 1.
NextPage(r) ==
    [call EXCEPT !.served = Append(@, r), !.list = @ \o r.results,
                 !.page = @ + 1]

\* The fetcher after the answer r, the last it asks for: return list.
Return(r) ==
    [call EXCEPT !.served = Append(@, r), !.list = @ \o r.results,
                 !.returned = TRUE]

\* get_addons, lines 205-230: one pass of its loop, and lines 343-347 when it
\* returns.
GetAddonsPage ==
    /\ run.pc = "get_addons"
    /\ \E r \in {Ok(AddonsPage(AType, call.page), n) : n \in Nexts(call.page)}
                    \cup {Failed(s) : s \in ErrorStatuses} :
          /\ requests' = Requested(AddonsFile(run.end_date, AType))
          /\ IF r.status # 200
             THEN /\ call' = Exit(r)
                  /\ run' = Ended
                  /\ cache' = cache
             ELSE IF r.next
             THEN /\ call' = NextPage(r)
                  /\ UNCHANGED <<run, cache>>
             ELSE /\ call' = Return(r)
                  /\ run' = [run EXCEPT !.addons = Return(r).list,
                                        !.pc = "versions"]
                  /\ cache' = Put(cache, AddonsFile(run.end_date, AType),
                                  dump(Return(r).list))
    /\ UNCHANGED <<vvars, mvars, runs>>

\* The end of a pass of the loop of line 332, after the report on the type
\* (lines 371-671), which an exception may have ended.
NextType(r, raised) ==
    IF raised THEN Ended
    ELSE IF r.atype < Len(ATYPES) THEN [r EXCEPT !.atype = @ + 1, !.pc = "addons"]
    ELSE [r EXCEPT !.pc = "loaded"]

\* Lines 351-356 and 367-369: the version histories of the type, read from the
\* file of the month or asked from the server add-on by add-on.
Versions ==
    /\ run.pc = "versions"
    /\ run' = IF ~exists(VersionsFile(run.end_date, AType))
              THEN [run EXCEPT !.addon_versions = EmptyDict, !.i = 1, !.pc = "for"]
              ELSE [run EXCEPT
                       !.addon_versions =
                           load(cache[VersionsFile(run.end_date, AType)]),
                       !.pc = "report"]
    /\ call' = NoCall
    /\ UNCHANGED <<vvars, mvars, cache, requests, runs>>

\* Lines 358-365: for addon in addons, and the file written after the loop.
ForAddon ==
    /\ run.pc = "for"
    /\ IF run.i <= Len(run.addons)
       THEN /\ call' = Call("get_addon_versions")
            /\ run' = [run EXCEPT !.pc = "get_addon_versions"]
            /\ cache' = cache
       ELSE /\ call' = NoCall
            /\ run' = [run EXCEPT !.pc = "report"]
            /\ cache' = Put(cache, VersionsFile(run.end_date, AType),
                            dump(run.addon_versions))
    /\ UNCHANGED <<vvars, mvars, requests, runs>>

\* addon_versions[key] = get_addon_versions(addon["id"]) has returned.
Assigned(versions) ==
    [run EXCEPT !.addon_versions = Put(@, KeyOf(run.addons[run.i]), versions),
                !.i = @ + 1, !.pc = "for"]

\* get_addon_versions, lines 237-264: one pass of its loop, and line 360 when
\* it returns.
GetAddonVersionsPage ==
    /\ run.pc = "get_addon_versions"
    /\ \E r \in {Ok(VersionsPage(run.addons[run.i], call.page), n) :
                     n \in Nexts(call.page)}
                    \cup {Failed(s) : s \in ErrorStatuses} :
          /\ requests' = Requested(VersionsFile(run.end_date, AType))
          /\ IF r.status \in {401, 404}
             THEN /\ call' = [Exit(r) EXCEPT !.returned = TRUE]
                  /\ run' = Assigned(call.list)
             ELSE IF r.status # 200
             THEN /\ call' = Exit(r)
                  /\ run' = Ended
             ELSE IF r.next
             THEN /\ call' = NextPage(r)
                  /\ run' = run
             ELSE /\ call' = Return(r)
                  /\ run' = Assigned(Return(r).list)
    /\ UNCHANGED <<vvars, mvars, cache, runs>>

\* Lines 371-671 for the type: the report is written, or an exception ends
\* the run.
Report ==
    /\ run.pc = "report"
    /\ \E raised \in BOOLEAN : run' = NextType(run, raised)
    /\ UNCHANGED <<vvars, mvars, cache, call, requests, runs>>

NextCache ==
    \/ RunMain
    \/ Languages
    \/ Addons
    \/ GetAddonsPage
    \/ Versions
    \/ ForAddon
    \/ GetAddonVersionsPage
    \/ Report

InitCache == VersionIdle /\ MainIdle

SpecCache == InitCache /\ [][NextCache]_vars

-----------------------------------------------------------------------------
(* C14: what the paginated fetchers return *)

\* The results of the pages 1..k of the answers, in page order.
RECURSIVE PagesUpTo(_, _)
PagesUpTo(served, k) ==
    IF k = 0 THEN <<>> ELSE PagesUpTo(served, k - 1) \o served[k].results

\* The answers are those of a collection fetched whole: every page was
\* answered with status 200, and the last answer, and only the last, says that
\* no page follows.
FetchedWhole(served) ==
    /\ Len(served) >= 1
    /\ \A k \in 1..Len(served) :
          /\ served[k].status = 200
          /\ served[k].next <=> k < Len(served)

\* C14 as claimed: whenever get_addons or get_addon_versions has returned, the
\* returned list is the concatenation, in page order, of the results of every
\* page up to and including the first page with no next page; no failure on a
\* page yields a returned list.
C14_Original ==
    (call.fn \in {"get_addons", "get_addon_versions"} /\ call.returned) =>
        /\ FetchedWhole(call.served)
        /\ call.list = PagesUpTo(call.served, Len(call.served))

\* get_addons alone: its returned list is always the whole collection.
C14_GetAddonsWhole ==
    (call.fn = "get_addons" /\ call.returned) =>
        /\ FetchedWhole(call.served)
        /\ call.list = PagesUpTo(call.served, Len(call.served))

-----------------------------------------------------------------------------
(* C15: the files of the report month *)

\* The statements of main() at which the languages, the add-ons of the type
\* and the version histories of the type are loaded.
HasLanguages ==
    run.pc \in {"addons", "get_addons", "versions", "for", "get_addon_versions",
                "report", "loaded"}
HasAddons == run.pc \in {"versions", "for", "get_addon_versions", "report"}
HasVersions == run.pc = "report"

\* The data main() works on are the content of the files of the month.
DataFromFiles ==
    /\ HasLanguages =>
          /\ LanguagesFile(run.end_date) \in DOMAIN cache
          /\ run.languages = cache[LanguagesFile(run.end_date)].text
    /\ HasAddons =>
          /\ AddonsFile(run.end_date, AType) \in DOMAIN cache
          /\ run.addons = cache[AddonsFile(run.end_date, AType)].text
    /\ HasVersions =>
          /\ VersionsFile(run.end_date, AType) \in DOMAIN cache
          /\ run.addon_versions = cache[VersionsFile(run.end_date, AType)].text

\* A step of the runs: a file that exists stays as it is and no request is
\* made for it, and a fetcher that ends the process leaves no file for what it
\* was fetching, nor any other.
CacheStep ==
    /\ \A f \in DOMAIN cache :
          /\ f \in DOMAIN cache'
          /\ cache'[f] = cache[f]
          /\ f \in requests' => f \in requests
    /\ (run.pc = "get_addons" /\ run'.pc = "exit") =>
          AddonsFile(run.end_date, AType) \notin DOMAIN cache'
    /\ (run.pc = "get_addon_versions" /\ run'.pc = "exit") =>
          VersionsFile(run.end_date, AType) \notin DOMAIN cache'
    /\ run'.pc = "exit" => cache' = cache

\* C15: for each dataset of a report month (languages, add-ons of a type,
\* version histories of a type): when its file exists no request is made for it
\* and the data used are the content of the file; when it does not, what the
\* fetcher returned is written to the file as it is and used.  So a file once
\* written is never fetched again nor changed, every later run of the month
\* uses the data of the run that wrote it, and a fetch that ends the process
\* leaves no file.
C15_FetchedOncePerMonth == [][CacheStep /\ DataFromFiles']_vars

\* The second run of the month, after a first run that ended while it fetched
\* the version histories of the themes: it found the four other files, made
\* requests for the version histories of the themes alone, and works on the
\* themes of the file; the languages are the {} a failed fetch left.
C15_Witness ==
    /\ runs = 2
    /\ run.pc = "loaded"
    /\ requests = {VersionsFile(run.end_date, "statictheme")}
    /\ DOMAIN cache =
          {LanguagesFile(run.end_date)}
              \cup {AddonsFile(run.end_date, ATYPES[k]) : k \in 1..Len(ATYPES)}
              \cup {VersionsFile(run.end_date, ATYPES[k]) : k \in 1..Len(ATYPES)}
    /\ Len(run.addons) = MaxPages
    /\ run.addons = cache[AddonsFile(run.end_date, "statictheme")].text
    /\ run.languages = EmptyDict

-----------------------------------------------------------------------------
(* The windows of addons.py and crash_stats.py for one instant *)

\* crash_stats.py lines 192-197: start_date, six months before the month of
\* the instant.
crash_start_date(t) ==
    IF t.month - 6 < 1 THEN Month(t.year - 1, t.month - 6 + 12)
    ELSE Month(t.year, t.month - 6)

\* crash_stats.py lines 199-204: end_date, the month before the month of the
\* instant.
crash_end_date(t) ==
    IF t.month - 1 < 1 THEN Month(t.year - 1, t.month - 1 + 12)
    ELSE Month(t.year, t.month - 1)

\* crash_stats.py main(), lines 191-204, run at the instant of addons.py.
CrashWindow ==
    /\ pc # "idle"
    /\ crash_dates = Unset
    /\ crash_dates' = [start_date |-> crash_start_date(now),
                       end_date |-> crash_end_date(now)]
    /\ UNCHANGED <<version, aversion, stderr, crash, release, compat, compatible>>
    /\ UNCHANGED <<mvars, cvars>>

\* The instants of the runs: in the course of a month (rest 1) and at its
\* first instant (rest 0), for months at the turn of a year and in its course.
WindowNows ==
    [year : {2026}, month : {1, 2, 3, 12}, rest : {0, 1}]

InitWindow == \E t \in WindowNows : MainStart(t, ProductDetails)

NextWindow == StartWindow \/ AppendMonth \/ PopLastMonth \/ CrashWindow

SpecWindow == InitWindow /\ [][NextWindow]_vars

-----------------------------------------------------------------------------
(* C16: the report month *)

\* Both scripts have chosen their report month.
WindowsDone == pc = "versions" /\ crash_dates # Unset

\* C16 as claimed: for every run instant the report month of addons.py is the
\* calendar month just before the month of the instant, the same month as
\* end_date of crash_stats.py, and the first enumerated month is January of the
\* year ten years before that of the report month.
C16_Original ==
    WindowsDone =>
        /\ MonthNumber(end_date) = MonthNumber(Month(now.year, now.month)) - 1
        /\ end_date = crash_dates.end_date
        /\ dates[1] = Month(end_date.year - WINDOW_YEARS, 1)

\* The same for the instants that are not the first instant of a month, for
\* which it holds.
C16_AfterFirstInstant == now.rest > 0 => C16_Original

=============================================================================
